---- MODULE Spec2Model ----
(***************************************************************************)
(* Model of graniticio/inifile: the IniConfig constructor                  *)
(* (NewIniConfigFromFileWithOptions), its line parser (parse), the store   *)
(* (sectionPropertyMap) and the accessors of IniConfig.                    *)
(*                                                                         *)
(* A Go string is modelled as the sequence of its bytes.  An ASCII byte is *)
(* the one-character TLA+ string of that character; the two bytes of the   *)
(* UTF-8 encoding of U+00B4 (acute accent) are "xC2" and "xB4".  A rune is *)
(* the one-character string of an ASCII character, or "U+00B4"/"U+00C2".   *)
(***************************************************************************)
EXTENDS Integers, Sequences, FiniteSets, TLC

VARIABLES
    nilFile,     \* the *os.File argument of the constructor is nil
    nilOptions,  \* the *IniOptions argument of the constructor is nil
    options,     \* the IniOptions object the caller passes (ic.options points to it)
    file,        \* the lines of the input behind the file handle
    delivered,   \* number of lines bufio.Scanner delivers before Scan() returns false
    scanErr,     \* Scan() returned false because of an error (s.Err() # nil), not EOF
    pc,          \* "new": constructor not yet called, "parse": in parse's loop, "done": returned
    lineNumber,  \* parse: lineNumber
    section,     \* parse: section (the current section)
    sections,    \* ic.sections : section name -> property name -> nilableString
    ret,         \* what the constructor returned: [ic |-> non-nil?, err |-> ...]
    adds,        \* number of Add calls the caller has made on the returned IniConfig
    lastAdd,     \* history: the arguments of the latest ic.Add call, <<>> or <<[s, p, v]>>
    trail,       \* history: for each line parse has handled, the branch it took
    views,       \* the names of the IniSection views the caller holds (is.name; is.ic is ic)
    lastGet      \* the latest accessor call and what it returned, <<>> or <<[op, s, p, res]>>

vars == <<nilFile, nilOptions, options, file, delivered, scanErr, pc, lineNumber,
          section, sections, ret, adds, lastAdd, trail, views, lastGet>>

(***************************************************************************)
(* Bounds of the model                                                     *)
(***************************************************************************)
\* lines of an input
MaxLines == 3
\* bytes of a property name in the single-line inputs
MaxKeyLen == 2
\* characters of a property value in the single-line inputs
MaxValueLen == 3
\* bytes of a line in the inline-comment inputs
MaxLineLen == 5
\* Add calls the caller makes after construction
MaxAdds == 1
\* lines of an input of headers and properties of two sections
MaxTrackLines == 4
\* pieces (a byte, or the placeholder token) of a line of the placeholder inputs
MaxPieces == 3

\* the arguments the caller passes to Add
AddSections == {<<>>, <<"a">>, <<"A">>}
AddProperties == {<<"a">>, <<"A">>}
AddValues == {<<>>, <<"b">>}

(***************************************************************************)
(* Strings                                                                 *)
(***************************************************************************)
GLOBAL_SECTION == <<>>

\* unicode.IsSpace on the bytes of the model
IsSpace(c) == c \in {" ", "\t"}

RECURSIVE TrimLeft(_)
TrimLeft(s) == IF s # <<>> /\ IsSpace(Head(s)) THEN TrimLeft(Tail(s)) ELSE s

RECURSIVE TrimRight(_)
TrimRight(s) ==
    IF s # <<>> /\ IsSpace(s[Len(s)]) THEN TrimRight(SubSeq(s, 1, Len(s) - 1)) ELSE s

\* strings.TrimSpace
TrimSpace(s) == TrimRight(TrimLeft(s))

\* unicode.ToLower on one byte of the model (bytes >= 0x80 belong to runes without case)
LowerByte(c) ==
    CASE c = "A" -> "a" [] c = "B" -> "b" [] c = "C" -> "c" [] c = "E" -> "e"
      [] c = "F" -> "f" [] c = "H" -> "h" [] c = "P" -> "p" [] c = "S" -> "s"
      [] c = "T" -> "t" [] c = "V" -> "v"
      [] OTHER -> c

\* strings.ToLower
ToLower(s) == [i \in 1..Len(s) |-> LowerByte(s[i])]

\* strings.HasPrefix
HasPrefix(s, p) == Len(p) <= Len(s) /\ SubSeq(s, 1, Len(p)) = p

Drop(s, n) == SubSeq(s, n + 1, Len(s))

\* strings.Index: position of the first occurrence of pat in s, 0 when there is none
Index(s, pat) ==
    LET hits == {i \in 1..(Len(s) - Len(pat) + 1) : SubSeq(s, i, i + Len(pat) - 1) = pat}
    IN  IF hits = {} THEN 0 ELSE CHOOSE i \in hits : \A j \in hits : i <= j

\* strings.Replace(s, old, new, -1) for a non-empty old: non-overlapping, left to right
RECURSIVE Replace(_, _, _)
Replace(s, old, new) ==
    IF Len(s) < Len(old) THEN s
    ELSE IF HasPrefix(s, old) THEN new \o Replace(Drop(s, Len(old)), old, new)
    ELSE <<Head(s)>> \o Replace(Tail(s), old, new)

\* strings.Split(s, sep)[0] for a non-empty sep
SplitFirst(s, sep) ==
    LET i == Index(s, sep) IN IF i = 0 THEN s ELSE SubSeq(s, 1, i - 1)

FirstOf(s, c) ==
    LET hits == {i \in 1..Len(s) : s[i] = c}
    IN  IF hits = {} THEN 0 ELSE CHOOSE i \in hits : \A j \in hits : i <= j

LastOf(s, c) ==
    LET hits == {i \in 1..Len(s) : s[i] = c}
    IN  IF hits = {} THEN 0 ELSE CHOOSE i \in hits : \A j \in hits : i >= j

Min(S) == CHOOSE x \in S : \A y \in S : x <= y
Max(S) == CHOOSE x \in S : \A y \in S : x >= y

\* rune(b) for a byte b of a string: the code point with the byte's value
RuneOfByte(b) ==
    CASE b = "xC2" -> "U+00C2" [] b = "xB4" -> "U+00B4" [] OTHER -> b

\* the UTF-8 encoding of a rune
Utf8(r) ==
    CASE r = "U+00B4" -> <<"xC2", "xB4">> [] r = "U+00C2" -> <<"xC3", "x82">>
      [] OTHER -> <<r>>

(***************************************************************************)
(* IniOptions                                                              *)
(***************************************************************************)
DefaultIniOptions ==
    [ CaseSensitive                |-> TRUE,
      CommentStart                 |-> <<";">>,
      TrimProperties               |-> TRUE,
      TolerateBlankLines           |-> TRUE,
      AllowGlobalSection           |-> TRUE,
      DiscardPropertiesWithNoValue |-> TRUE,
      UseGoBoolRules               |-> TRUE,
      StrictBoolTrue               |-> <<>>,
      StrictBoolFalse              |-> <<>>,
      StrictBoolCaseSensitive      |-> TRUE,
      IgnoreUnparseable            |-> FALSE,
      AllowInlineComments          |-> FALSE,
      CommentEscapePrefix          |-> <<"\\">>,
      StripEnclosingQuotes         |-> FALSE,
      EnclosingQuoteSymbols        |-> <<"'", "\"">>,
      UseColonAssignment           |-> FALSE ]

(***************************************************************************)
(* The regular expressions of the parser, as regexp.MatchString and        *)
(* regexp.FindStringSubmatch evaluate them: unanchored, leftmost match,    *)
(* greedy repetition.                                                      *)
(***************************************************************************)
\* rx_section = "\\[(.*)\\]": from the first '[' to the last ']' after it
rx_section(l) ==
    LET f == FirstOf(l, "[")
        g == LastOf(l, "]")
    IN  IF f > 0 /\ g > f
        THEN [matched |-> TRUE, name |-> SubSeq(l, f + 1, g - 1)]
        ELSE [matched |-> FALSE, name |-> <<>>]

\* rx_property = "([^=]*)=(.*)": split at the first '='
rx_property(l) ==
    LET e == FirstOf(l, "=")
    IN  IF e > 0
        THEN [matched |-> TRUE, key |-> SubSeq(l, 1, e - 1), value |-> Drop(l, e)]
        ELSE [matched |-> FALSE, key |-> <<>>, value |-> <<>>]

\* rx_colon_property = "([^=]*):(.*)": the match starts at the first position from
\* which a run of non-'=' bytes reaches a ':', and the greedy group 1 ends at the
\* last ':' of that run
rx_colon_property(l) ==
    LET eqs      == {e \in 1..Len(l) : l[e] = "="}
        starts   == {1} \cup {e + 1 : e \in eqs}
        RunEnd(s) == Min({e - 1 : e \in {x \in eqs : x >= s}} \cup {Len(l)})
        Cols(s)  == {c \in s..RunEnd(s) : l[c] = ":"}
        good     == {s \in starts : Cols(s) # {}}
    IN  IF good = {}
        THEN [matched |-> FALSE, key |-> <<>>, value |-> <<>>]
        ELSE LET s0 == Min(good)
                 c0 == Max(Cols(s0))
             IN  [matched |-> TRUE, key |-> SubSeq(l, s0, c0 - 1), value |-> Drop(l, c0)]

\* parse: propRx, chosen by options.UseColonAssignment
propRx(l) == IF options.UseColonAssignment THEN rx_colon_property(l) ELSE rx_property(l)

(***************************************************************************)
(* IniConfig                                                               *)
(***************************************************************************)
\* mutant of normalise: names are never folded
normalise_never(s) == s

\* IniConfig.normalise
normalise(s) == IF options.CaseSensitive THEN s ELSE ToLower(s)

\* mutant of newNilableString: Set is not called
newNilableString_unset(v) == [val |-> v, set |-> FALSE]

\* newNilableString / nilableString.Set
newNilableString(v) == [val |-> v, set |-> TRUE]

\* IniConfig.findSection on a store: the section's map, or nil
findSectionIn(secs, sectionName) ==
    LET n == normalise(sectionName)
    IN  IF n \in DOMAIN secs THEN [nil |-> FALSE, m |-> secs[n]]
                             ELSE [nil |-> TRUE, m |-> <<>>]

findSection(sectionName) == findSectionIn(sections, sectionName)

\* IniConfig.SectionExists
SectionExists(sectionName) == ~findSection(sectionName).nil

\* IniConfig.PropertyExists
PropertyExists(sectionName, propertyName) ==
    LET p == normalise(propertyName)
        foundSection == findSection(sectionName)
    IN  IF foundSection.nil THEN FALSE ELSE p \in DOMAIN foundSection.m

\* IniConfig.Value: (string, error)
Value(sectionName, propertyName) ==
    LET sec == findSection(sectionName)
        p   == normalise(propertyName)
    IN  IF sec.nil THEN [val |-> <<>>, err |-> "No such section"]
        ELSE IF p \notin DOMAIN sec.m THEN [val |-> <<>>, err |-> "No such property"]
        ELSE [val |-> sec.m[p].val, err |-> "nil"]

\* mutant of Add: a property that already exists keeps its value
Add_keepFirst(secs, sec, propertyName, value) ==
    LET s == normalise(sec)
        p == normalise(propertyName)
        storedSection == IF s \in DOMAIN secs THEN secs[s] ELSE <<>>
        newSection == [x \in (DOMAIN storedSection) \cup {p} |->
                          IF x \in DOMAIN storedSection THEN storedSection[x]
                                                        ELSE newNilableString(value)]
    IN  [x \in (DOMAIN secs) \cup {s} |-> IF x = s THEN newSection ELSE secs[x]]

\* mutant of Add: every property is stored under the global section
Add_flat(secs, sec, propertyName, value) ==
    LET s == GLOBAL_SECTION
        p == normalise(propertyName)
        storedSection == IF s \in DOMAIN secs THEN secs[s] ELSE <<>>
        newSection == [x \in (DOMAIN storedSection) \cup {p} |->
                          IF x = p THEN newNilableString(value) ELSE storedSection[x]]
    IN  [x \in (DOMAIN secs) \cup {s} |-> IF x = s THEN newSection ELSE secs[x]]

\* IniConfig.Add on a store
Add(secs, sec, propertyName, value) ==
    LET s == normalise(sec)
        p == normalise(propertyName)
        storedSection == IF s \in DOMAIN secs THEN secs[s] ELSE <<>>
        newSection == [x \in (DOMAIN storedSection) \cup {p} |->
                          IF x = p THEN newNilableString(value) ELSE storedSection[x]]
    IN  [x \in (DOMAIN secs) \cup {s} |-> IF x = s THEN newSection ELSE secs[x]]

\* mutant of stripQuotes: the value is returned with its quotes
stripQuotes_never(value) == value

\* IniConfig.stripQuotes
stripQuotes(value) ==
    LET vLength == Len(value)
        syms    == options.EnclosingQuoteSymbols
    IN  IF ~options.StripEnclosingQuotes \/ vLength < 2 THEN value
        ELSE IF \E i \in 1..Len(syms) :
                    /\ RuneOfByte(value[1]) = syms[i]
                    /\ RuneOfByte(value[vLength]) = syms[i]
             THEN SubSeq(value, 2, vLength - 1)
             ELSE value

\* the placeholder of stripInlineComments: ph := "[ESC_PH?]"
ph == <<"[", "E", "S", "C", "_", "P", "H", "?", "]">>

\* IniConfig.stripInlineComments
stripInlineComments(line) ==
    IF ~options.AllowInlineComments THEN line
    ELSE LET escapeSeq == options.CommentEscapePrefix \o options.CommentStart
             l1 == Replace(line, escapeSeq, ph)
             l2 == SplitFirst(l1, options.CommentStart)
         IN  Replace(l2, ph, options.CommentStart)

(***************************************************************************)
(* parse                                                                   *)
(***************************************************************************)
NoError == [kind |-> "nil", line |-> 0]

errorf(kind, n) == [kind |-> kind, line |-> n]

\* mutant of globalForbidden: every property is rejected when the option is off
globalForbidden_anywhere(sec) == ~options.AllowGlobalSection

\* parse: the guard of the property-outside-section error
globalForbidden(sec) == sec = GLOBAL_SECTION /\ ~options.AllowGlobalSection

\* mutant of keepProperty: the option is read the wrong way round
keepProperty_inverted(value) == Len(value) > 0 \/ options.DiscardPropertiesWithNoValue

\* parse: the guard of ic.Add
keepProperty(value) == Len(value) > 0 \/ ~options.DiscardPropertiesWithNoValue

\* parse: the body of the scan loop for the line raw, numbered n, with current
\* section sec and store secs.  err is the error parse returns from this line
\* ("nil": the loop goes on), branch names the branch taken.
parseLine(raw, n, sec, secs) ==
    LET l == TrimSpace(raw)
        lineLength == Len(l)
        go(branch, newSec, newSecs, call) ==
            [err |-> NoError, branch |-> branch, section |-> newSec,
             sections |-> newSecs, call |-> call]
        stop(kind) ==
            [err |-> errorf(kind, n), branch |-> "error", section |-> sec,
             sections |-> secs, call |-> <<>>]
    IN  IF lineLength = 0 /\ ~options.TolerateBlankLines THEN stop("Blank line")
        ELSE IF lineLength = 0 THEN go("blank", sec, secs, <<>>)
        ELSE IF HasPrefix(l, options.CommentStart) THEN go("comment", sec, secs, <<>>)
        ELSE
          LET ls == stripInlineComments(l)
              sm == rx_section(ls)
              pm == propRx(ls)
              \* FindStringSubmatch: the matched text and one entry per capture group
              sectionMatches  == <<ls, sm.name>>
              propertyMatches == <<ls, pm.key, pm.value>>
          IN  IF sm.matched THEN
                IF Len(sectionMatches) # 2 THEN stop("Unparseable section line")
                ELSE go("section", sm.name, secs, <<>>)
              ELSE IF pm.matched THEN
                IF globalForbidden(sec) THEN stop("Property outside of a named section")
                ELSE IF Len(propertyMatches) # 3 THEN stop("Unparseable property line")
                ELSE
                  LET key   == IF options.TrimProperties THEN TrimSpace(pm.key) ELSE pm.key
                      val0  == IF options.TrimProperties THEN TrimSpace(pm.value) ELSE pm.value
                      value == stripQuotes(val0)
                  IN  IF keepProperty(value)
                      THEN go("property", sec, Add(secs, sec, key, value),
                              <<[s |-> sec, p |-> key, v |-> value]>>)
                      ELSE go("discarded", sec, secs, <<>>)
              ELSE IF ~options.IgnoreUnparseable THEN stop("Unparseable line")
              ELSE go("skipped", sec, secs, <<>>)

\* mutant of construct: the IniConfig is returned together with the error
construct_partial(err) == [ic |-> TRUE, err |-> err]

\* mutant of construct: an unparseable-line error is swallowed
construct_lenient(err) ==
    IF err.kind \in {"nil", "Unparseable line"} THEN [ic |-> TRUE, err |-> NoError]
                                                ELSE [ic |-> FALSE, err |-> err]

\* NewIniConfigFromFileWithOptions: what it returns for parse's result err
construct(err) ==
    IF err.kind # "nil" THEN [ic |-> FALSE, err |-> err] ELSE [ic |-> TRUE, err |-> NoError]

(***************************************************************************)
(* Actions                                                                 *)
(***************************************************************************)
\* mutant of commentStartMissing: whitespace counts as a comment marker
commentStartMissing_untrimmed(o) == Len(o.CommentStart) = 0

\* NewIniConfigFromFileWithOptions: len(strings.TrimSpace(options.CommentStart)) == 0
commentStartMissing(o) == Len(TrimSpace(o.CommentStart)) = 0

\* NewIniConfigFromFileWithOptions up to the first Scan() of parse
New ==
    /\ pc = "new"
    /\ IF nilFile
       THEN /\ ret' = [ic |-> FALSE, err |-> errorf("Nil file provided", 0)]
            /\ pc' = "done"
       ELSE IF nilOptions
       THEN /\ ret' = [ic |-> FALSE, err |-> errorf("Nil IniOptions provided", 0)]
            /\ pc' = "done"
       ELSE IF commentStartMissing(options)
       THEN /\ ret' = [ic |-> FALSE, err |-> errorf("CommentStart cannot be empty", 0)]
            /\ pc' = "done"
       ELSE /\ pc' = "parse"
            /\ ret' = ret
    /\ sections' = <<>>
    /\ section' = GLOBAL_SECTION
    /\ lineNumber' = 0
    /\ UNCHANGED <<nilFile, nilOptions, options, file, delivered, scanErr, adds, lastAdd, trail,
                   views, lastGet>>

\* parse: s.Scan() delivers the next line and the loop body handles it
ParseLine ==
    /\ pc = "parse"
    /\ lineNumber < delivered
    /\ LET n == lineNumber + 1
           r == parseLine(file[n], n, section, sections)
       IN  /\ lineNumber' = n
           /\ section' = r.section
           /\ sections' = r.sections
           /\ trail' = Append(trail, r.branch)
           /\ lastAdd' = IF r.call # <<>> THEN r.call ELSE lastAdd
           /\ IF r.err.kind # "nil"
              THEN pc' = "done" /\ ret' = construct(r.err)
              ELSE pc' = pc /\ ret' = ret
    /\ UNCHANGED <<nilFile, nilOptions, options, file, delivered, scanErr, adds, views, lastGet>>

\* parse: s.Scan() returns false (end of input, or a read error that parse never
\* asks s.Err() for); parse returns nil
ParseEnd ==
    /\ pc = "parse"
    /\ lineNumber = delivered
    /\ pc' = "done"
    /\ ret' = construct(NoError)
    /\ UNCHANGED <<nilFile, nilOptions, options, file, delivered, scanErr, lineNumber,
                   section, sections, adds, lastAdd, trail, views, lastGet>>

\* the caller calls ic.Add on the IniConfig the constructor returned
CallAdd ==
    /\ pc = "done"
    /\ ret.ic
    /\ adds < MaxAdds
    /\ \E s \in AddSections, p \in AddProperties, v \in AddValues :
          /\ sections' = Add(sections, s, p, v)
          /\ lastAdd' = <<[s |-> s, p |-> p, v |-> v]>>
    /\ adds' = adds + 1
    /\ UNCHANGED <<nilFile, nilOptions, options, file, delivered, scanErr, pc, lineNumber,
                   section, ret, trail, views, lastGet>>

ParseNext == New \/ ParseLine \/ ParseEnd

Next == ParseNext \/ CallAdd

(***************************************************************************)
(* Inputs                                                                  *)
(***************************************************************************)
SeqsUpTo(S, n) == UNION {[1..k -> S] : k \in 0..n}

Hdr(name) == <<"[">> \o name \o <<"]">>
Prop(key, value) == key \o <<"=">> \o value

\* the state before the constructor is called with options o and the input f, of
\* which the scanner delivers d lines (all of them unless e)
Start(o, f, d, e) ==
    /\ nilFile = FALSE
    /\ nilOptions = FALSE
    /\ options = o
    /\ file = f
    /\ delivered = d
    /\ scanErr = e
    /\ pc = "new"
    /\ lineNumber = 0
    /\ section = GLOBAL_SECTION
    /\ sections = <<>>
    /\ ret = [ic |-> FALSE, err |-> NoError]
    /\ adds = 0
    /\ lastAdd = <<>>
    /\ trail = <<>>
    /\ views = {}
    /\ lastGet = <<>>

\* lines of every kind: blank, comment, unparseable, headers, properties
ParseLines ==
    {<<>>, <<";", "a">>, <<"a">>}
      \cup {Hdr(n) : n \in {<<>>, <<"a">>}}
      \cup {Prop(<<"a">>, v) : v \in {<<>>, <<"b">>}}

ParseOptions ==
    {[DefaultIniOptions EXCEPT !.TolerateBlankLines = t, !.AllowGlobalSection = g,
                               !.DiscardPropertiesWithNoValue = d, !.IgnoreUnparseable = i] :
        t \in BOOLEAN, g \in BOOLEAN, d \in BOOLEAN, i \in BOOLEAN}

\* any input of at most MaxLines lines, read completely
InitParse ==
    \E o \in ParseOptions, f \in SeqsUpTo(ParseLines, MaxLines) : Start(o, f, Len(f), FALSE)

SpecParse == InitParse /\ [][ParseNext]_vars

\* any input of at most MaxLines lines, read completely or up to a read error after
\* d lines (a failing read, or a line longer than the scanner's buffer)
InitRead ==
    \E o \in ParseOptions, f \in SeqsUpTo(ParseLines, MaxLines) :
      \E d \in 0..Len(f), e \in BOOLEAN :
        /\ (~e => d = Len(f))
        /\ Start(o, f, d, e)

SpecRead == InitRead /\ [][ParseNext]_vars

\* headers and properties whose names differ only in case
CaseLines ==
    {Hdr(<<"a">>), Hdr(<<"A">>), Prop(<<"a">>, <<"b">>), Prop(<<"A">>, <<"c">>)}

CaseOptions == {[DefaultIniOptions EXCEPT !.CaseSensitive = c] : c \in BOOLEAN}

\* an input of such lines, read completely, then Add calls by the caller
Init ==
    \E o \in CaseOptions, f \in SeqsUpTo(CaseLines, MaxLines) : Start(o, f, Len(f), FALSE)

Spec == Init /\ [][Next]_vars

\* the bytes of keys and values of the round-trip inputs
RoundTripBytes == {"a", " ", "[", "]", ":", "\""}

\* [S] followed by key=value, key without '=', value not blank, default options
InitRoundTrip ==
    \E k \in SeqsUpTo(RoundTripBytes, MaxKeyLen), v \in SeqsUpTo(RoundTripBytes, MaxValueLen) :
        /\ TrimSpace(v) # <<>>
        /\ Start(DefaultIniOptions, <<Hdr(<<"S">>), Prop(k, v)>>, 2, FALSE)

SpecRoundTrip == InitRoundTrip /\ [][ParseNext]_vars

ColonOptions ==
    {[DefaultIniOptions EXCEPT !.UseColonAssignment = TRUE, !.IgnoreUnparseable = i] :
        i \in BOOLEAN}

\* [S] followed by name:value or key=value; values may contain ':'
InitColon ==
    \E o \in ColonOptions, sep \in {":", "="},
       k \in SeqsUpTo({"k"}, MaxKeyLen), v \in SeqsUpTo({"v", ":"}, MaxValueLen) :
        /\ k # <<>> /\ v # <<>>
        /\ Start(o, <<Hdr(<<"S">>), k \o <<sep>> \o v>>, 2, FALSE)

SpecColon == InitColon /\ [][ParseNext]_vars

InlineOptions ==
    {[DefaultIniOptions EXCEPT !.AllowInlineComments = TRUE, !.CommentStart = <<c>>] :
        c \in {";", "#", "?"}}

\* one line of at most MaxLineLen bytes: letters, separator, brackets, the escape
\* prefix and the configured comment marker
InitInline ==
    \E o \in InlineOptions :
      \E l \in SeqsUpTo({"a", "=", "[", "]", "\\"} \cup {o.CommentStart[1]}, MaxLineLen) :
        Start(o, <<l>>, 1, FALSE)

SpecInline == InitInline /\ [][ParseNext]_vars

\* the runes of the quoted values: both default quotes, a letter, the acute accent
QuoteRunes == {"'", "\"", "v", "U+00B4"}

RECURSIVE Encode(_)
\* the bytes of a string of runes
Encode(rs) == IF rs = <<>> THEN <<>> ELSE Utf8(Head(rs)) \o Encode(Tail(rs))

QuoteOptions ==
    {[DefaultIniOptions EXCEPT !.StripEnclosingQuotes = s, !.EnclosingQuoteSymbols = q,
                               !.DiscardPropertiesWithNoValue = d] :
        s \in BOOLEAN, q \in {<<"'", "\"">>, <<"U+00B4">>}, d \in BOOLEAN}

\* one line k=value
InitQuotes ==
    \E o \in QuoteOptions, v \in SeqsUpTo(QuoteRunes, MaxValueLen) :
        Start(o, <<Prop(<<"k">>, Encode(v))>>, 1, FALSE)

SpecQuotes == InitQuotes /\ [][ParseNext]_vars

(***************************************************************************)
(* What each line of the input is, read off the input alone                *)
(***************************************************************************)
LineText(i) == TrimSpace(file[i])
Stripped(i) == stripInlineComments(LineText(i))

IsBlankLine(i)    == LineText(i) = <<>>
IsCommentLine(i)  == ~IsBlankLine(i) /\ HasPrefix(LineText(i), options.CommentStart)
IsHeaderLine(i)   == ~IsBlankLine(i) /\ ~IsCommentLine(i) /\ rx_section(Stripped(i)).matched
IsPropertyLine(i) == /\ ~IsBlankLine(i) /\ ~IsCommentLine(i) /\ ~IsHeaderLine(i)
                     /\ propRx(Stripped(i)).matched
IsOtherLine(i)    == /\ ~IsBlankLine(i) /\ ~IsCommentLine(i) /\ ~IsHeaderLine(i)
                     /\ ~IsPropertyLine(i)

HeaderName(i) == rx_section(Stripped(i)).name

\* the header lines before line i
HeadersBefore(i) == {j \in 1..(i - 1) : IsHeaderLine(j)}

\* the name of the most recent header before line i, GLOBAL_SECTION when there is none
SectionAt(i) ==
    IF HeadersBefore(i) = {} THEN GLOBAL_SECTION ELSE HeaderName(Max(HeadersBefore(i)))

\* key and value of a property line, as stored
KeyOf(i) ==
    LET k == propRx(Stripped(i)).key
    IN  IF options.TrimProperties THEN TrimSpace(k) ELSE k

RawValueOf(i) == propRx(Stripped(i)).value

\* the error a line earns when parse reaches it, "nil" when it earns none
FailKind(i) ==
    IF IsBlankLine(i) /\ ~options.TolerateBlankLines THEN "Blank line"
    ELSE IF IsPropertyLine(i) /\ SectionAt(i) = GLOBAL_SECTION /\ ~options.AllowGlobalSection
         THEN "Property outside of a named section"
    ELSE IF IsOtherLine(i) /\ ~options.IgnoreUnparseable THEN "Unparseable line"
    ELSE "nil"

\* the delivered lines that fail classification
FailingLines == {i \in 1..delivered : FailKind(i) # "nil"}

(***************************************************************************)
(* C2  Fail-fast parse                                                     *)
(***************************************************************************)
\* C2: when the constructor has returned and some line the scanner delivered fails
\* classification, it returned nil for the IniConfig and the error of the
\* lowest-numbered failing line, with that line's 1-based number counted over all
\* lines (blank and comment lines included).
C2_FailFast ==
    (pc = "done" /\ FailingLines # {}) =>
        /\ ~ret.ic
        /\ ret.err = errorf(FailKind(Min(FailingLines)), Min(FailingLines))

\* a store was built from line 1, lines 2 and 3 both fail, the error is line 2's
C2_Witness ==
    /\ pc = "done"
    /\ sections # <<>>
    /\ {2, 3} \subseteq FailingLines
    /\ ret = [ic |-> FALSE, err |-> errorf(FailKind(2), 2)]

(***************************************************************************)
(* C3  Read errors                                                         *)
(***************************************************************************)
\* C3: when reading stopped abnormally (Scan() returned false with an error) the
\* constructor returns an error and no IniConfig.
C3_ReadErrorReturned ==
    (pc = "done" /\ scanErr) => (~ret.ic /\ ret.err.kind # "nil")

(***************************************************************************)
(* C4  Global-section rule                                                 *)
(***************************************************************************)
OutsideError == "Property outside of a named section"

\* the lines parse has handled so far
Handled == 1..lineNumber

\* a handled property line that was stored is returned by Value under its section
StoredUnderGlobal(i) ==
    (/\ i = lineNumber /\ IsPropertyLine(i) /\ SectionAt(i) = GLOBAL_SECTION
     /\ trail[i] = "property")
        => Value(GLOBAL_SECTION, KeyOf(i)) = [val |-> TrimSpace(RawValueOf(i)), err |-> "nil"]

\* C4 as claimed: with AllowGlobalSection=false the parse fails with the
\* property-outside-section error exactly when a property line with no section
\* header line before it is reached; with AllowGlobalSection=true such a property,
\* when stored, is returned by Value(GLOBAL_SECTION, key).
C4_Original ==
    /\ (pc = "done" /\ ~options.AllowGlobalSection) =>
          ((ret.err.kind = OutsideError)
              <=> (\E i \in Handled : IsPropertyLine(i) /\ HeadersBefore(i) = {}))
    /\ options.AllowGlobalSection =>
          \A i \in Handled : HeadersBefore(i) = {} => StoredUnderGlobal(i)

\* C4 amended: with AllowGlobalSection=false the parse fails with the
\* property-outside-section error exactly when a property line is reached while the
\* current section is GLOBAL_SECTION: no header line precedes it, or the most
\* recent header before it is the empty header [] (a property line whose most
\* recent header has a non-empty name is never rejected by this rule), and the
\* error carries that line's number; with AllowGlobalSection=true such a property,
\* when stored, is returned by Value(GLOBAL_SECTION, key).
C4_GlobalRule ==
    /\ (pc = "done" /\ ~options.AllowGlobalSection) =>
          /\ (ret.err.kind = OutsideError)
                <=> (\E i \in Handled : IsPropertyLine(i) /\ SectionAt(i) = GLOBAL_SECTION)
          /\ (ret.err.kind = OutsideError) =>
                /\ ret.err.line = lineNumber
                /\ IsPropertyLine(lineNumber)
                /\ SectionAt(lineNumber) = GLOBAL_SECTION
    /\ options.AllowGlobalSection => \A i \in Handled : StoredUnderGlobal(i)

\* a property is rejected after the empty header [], and another run stores a
\* global property; the witness is the rejected one
C4_Witness ==
    /\ pc = "done"
    /\ ~options.AllowGlobalSection
    /\ ret.err = errorf(OutsideError, 3)
    /\ IsHeaderLine(1) /\ HeaderName(1) # GLOBAL_SECTION
    /\ IsHeaderLine(2) /\ HeaderName(2) = GLOBAL_SECTION
    /\ IsPropertyLine(3)

(***************************************************************************)
(* C6  Empty values during parse                                           *)
(***************************************************************************)
\* line i is a property line written key= (nothing after the separator)
IsEmptyValued(i) == IsPropertyLine(i) /\ RawValueOf(i) = <<>>

\* handled property lines that assign a non-empty value to the key of line i in
\* the section of line i
AssignedElsewhere(i) ==
    {j \in Handled : /\ IsPropertyLine(j) /\ ~IsEmptyValued(j)
                     /\ normalise(SectionAt(j)) = normalise(SectionAt(i))
                     /\ normalise(KeyOf(j)) = normalise(KeyOf(i))}

C6_State ==
    \A i \in Handled :
      (IsEmptyValued(i) /\ trail[i] # "error") =>
        IF options.DiscardPropertiesWithNoValue
        THEN AssignedElsewhere(i) = {} => ~PropertyExists(SectionAt(i), KeyOf(i))
        ELSE i = lineNumber =>
               /\ PropertyExists(SectionAt(i), KeyOf(i))
               /\ Value(SectionAt(i), KeyOf(i)) = [val |-> <<>>, err |-> "nil"]

C6_Step ==
    (/\ pc = "parse" /\ lineNumber < delivered
     /\ IsEmptyValued(lineNumber + 1)
     /\ options.DiscardPropertiesWithNoValue) => sections' = sections

\* C6: with DiscardPropertiesWithNoValue=true handling a property line key= leaves
\* the store unchanged (a key assigned only by such lines does not exist, an
\* earlier value of the key is kept); with DiscardPropertiesWithNoValue=false the
\* line stores the key with value "": PropertyExists is true and Value returns ""
\* without error.
C6_EmptyValues == [] C6_State /\ [][C6_Step]_vars

\* key= was handled after key=b under discarding, and b is still the value
C6_Witness ==
    /\ options.DiscardPropertiesWithNoValue
    /\ lineNumber = 3
    /\ trail = <<"section", "property", "discarded">>
    /\ IsEmptyValued(3)
    /\ Value(SectionAt(3), KeyOf(3)) = [val |-> <<"b">>, err |-> "nil"]

(***************************************************************************)
(* C10  SectionExists for every header                                     *)
(***************************************************************************)
\* C10: after a successful parse SectionExists(n) is true for every section header
\* line [n] of the input the scanner delivered.
C10_HeaderExists ==
    (pc = "done" /\ ret.ic) =>
        \A i \in 1..delivered : IsHeaderLine(i) => SectionExists(HeaderName(i))

(***************************************************************************)
(* C5  Case folding                                                        *)
(***************************************************************************)
\* the names the model's inputs and the caller's Add calls use, in every casing
CaseNames == {<<>>, <<"a">>, <<"A">>}

\* the casings of a name: the names that differ from it only in case
Casings(n) == {c \in CaseNames : ToLower(c) = ToLower(n)}

\* every casing of the query gives the same answer
C5_SameAnswer ==
    \A s \in CaseNames, p \in CaseNames :
      \A s2 \in Casings(s), p2 \in Casings(p) :
        /\ SectionExists(s2) = SectionExists(s)
        /\ PropertyExists(s2, p2) = PropertyExists(s, p)
        /\ Value(s2, p2).val = Value(s, p).val
        /\ (Value(s2, p2).err = "nil") = (Value(s, p).err = "nil")

\* the latest Add (by parse or by the caller) is found under every casing of its names
C5_LastAssigned ==
    lastAdd # <<>> =>
      \A s2 \in Casings(lastAdd[1].s), p2 \in Casings(lastAdd[1].p) :
        /\ SectionExists(s2)
        /\ PropertyExists(s2, p2)
        /\ Value(s2, p2) = [val |-> lastAdd[1].v, err |-> "nil"]

\* the latest Add is found under its own casing
C5_ExactFound ==
    lastAdd # <<>> =>
      /\ SectionExists(lastAdd[1].s)
      /\ PropertyExists(lastAdd[1].s, lastAdd[1].p)
      /\ Value(lastAdd[1].s, lastAdd[1].p) = [val |-> lastAdd[1].v, err |-> "nil"]

\* a query starts to match only in a step that stores exactly its casing
C5_ExactOnly ==
    \A s \in CaseNames, p \in CaseNames :
      /\ (~SectionExists(s) /\ SectionExists(s)') =>
            (lastAdd' # <<>> /\ lastAdd'[1].s = s)
      /\ (~PropertyExists(s, p) /\ PropertyExists(s, p)') =>
            (lastAdd' # <<>> /\ lastAdd'[1].s = s /\ lastAdd'[1].p = p)

\* C5: with CaseSensitive=false SectionExists, PropertyExists and Value answer the
\* same for every casing of the queried names, and the latest value assigned under
\* any casing is the one every casing returns; with CaseSensitive=true a stored name
\* is found under its own casing and a query matches only a name stored with
\* exactly that casing.
C5_CaseFolding ==
    /\ [] (IF options.CaseSensitive THEN C5_ExactFound
                                    ELSE C5_SameAnswer /\ C5_LastAssigned)
    /\ [][options.CaseSensitive => C5_ExactOnly]_vars

\* parse stored [a] a=b, the caller then added ("A", "A", ""), and the lower-case
\* query returns the caller's value
C5_Witness ==
    /\ ~options.CaseSensitive
    /\ file = <<Hdr(<<"a">>), Prop(<<"a">>, <<"b">>)>>
    /\ adds = 1
    /\ lastAdd = <<[s |-> <<"A">>, p |-> <<"A">>, v |-> <<>>]>>
    /\ DOMAIN sections = {<<"a">>}
    /\ Value(<<"a">>, <<"a">>) = [val |-> <<>>, err |-> "nil"]

(***************************************************************************)
(* C1  Round trip under DefaultIniOptions                                  *)
(***************************************************************************)
\* the parts of the input <<[S], key=value>> (key holds no '=')
InputSection == SubSeq(file[1], 2, Len(file[1]) - 1)
InputKey     == SubSeq(file[2], 1, FirstOf(file[2], "=") - 1)
InputValue   == Drop(file[2], FirstOf(file[2], "="))

\* C1: for the input [S], key=value under DefaultIniOptions the parse succeeds,
\* PropertyExists(S, trim(key)) is true and Value(S, trim(key)) returns trim(value).
C1_RoundTrip ==
    pc = "done" =>
        /\ ret.ic
        /\ PropertyExists(InputSection, TrimSpace(InputKey))
        /\ Value(InputSection, TrimSpace(InputKey))
              = [val |-> TrimSpace(InputValue), err |-> "nil"]

(***************************************************************************)
(* C7  Colon mode                                                          *)
(***************************************************************************)
\* the input line name<sep>value: the separator is the first byte after the k's
InputSepAt == Min({i \in 1..Len(file[2]) : file[2][i] # "k"})
InputSep   == file[2][InputSepAt]
InputName  == SubSeq(file[2], 1, InputSepAt - 1)
InputRest  == Drop(file[2], InputSepAt)

\* C7: with UseColonAssignment=true the line name:value is stored as name -> value,
\* and a line key=value is not stored as a property but handled as an unparseable
\* line (error when IgnoreUnparseable=false, skipped when true), also when the
\* value contains ':'.
C7_ColonMode ==
    pc = "done" =>
        IF InputSep = ":"
        THEN /\ ret.ic
             /\ Value(InputSection, InputName) = [val |-> InputRest, err |-> "nil"]
        ELSE /\ sections = <<>>
             /\ IF options.IgnoreUnparseable
                THEN ret.ic /\ trail = <<"section", "skipped">>
                ELSE ret = [ic |-> FALSE, err |-> errorf("Unparseable line", 2)]

(***************************************************************************)
(* C8  Inline comments                                                     *)
(***************************************************************************)
\* positions of line l where the comment-start marker begins
MarkersOf(l) ==
    {i \in 1..Len(l) : SubSeq(l, i, i + Len(options.CommentStart) - 1) = options.CommentStart}

\* the marker at position i of l is preceded by CommentEscapePrefix
IsEscaped(l, i) ==
    LET n == Len(options.CommentEscapePrefix)
    IN  i - n >= 1 /\ SubSeq(l, i - n, i - 1) = options.CommentEscapePrefix

\* where the comment of l begins: the first marker that is not escaped
CommentAt(l) ==
    LET open == {i \in MarkersOf(l) : ~IsEscaped(l, i)}
    IN  IF open = {} THEN Len(l) + 1 ELSE Min(open)

\* position j of l belongs to an escape prefix in front of a marker before the comment
InEscapePrefix(l, j) ==
    \E i \in MarkersOf(l) :
        /\ i < CommentAt(l) /\ IsEscaped(l, i)
        /\ i - Len(options.CommentEscapePrefix) <= j /\ j < i

RECURSIVE KeepFrom(_, _)
\* l from position j up to its comment, without the escape prefixes
KeepFrom(l, j) ==
    IF j >= CommentAt(l) THEN <<>>
    ELSE IF InEscapePrefix(l, j) THEN KeepFrom(l, j + 1)
    ELSE <<l[j]>> \o KeepFrom(l, j + 1)

\* the text of line 1 the claim says is left: comment discarded, escapes removed
ExpectedText == KeepFrom(LineText(1), 1)

\* C8: with AllowInlineComments=true a section or property line is stored as its
\* text up to the first unescaped comment-start marker, with every escaped marker
\* before that point as the literal CommentStart: a header sets that section name,
\* a property is stored under that name with that value.
C8_InlineComments ==
    (pc = "done" /\ ~IsCommentLine(1) /\ ~IsBlankLine(1)) =>
        IF rx_section(ExpectedText).matched
        THEN section = rx_section(ExpectedText).name
        ELSE (rx_property(ExpectedText).matched
                /\ TrimSpace(rx_property(ExpectedText).value) # <<>>) =>
             Value(GLOBAL_SECTION, TrimSpace(rx_property(ExpectedText).key))
                = [val |-> TrimSpace(rx_property(ExpectedText).value), err |-> "nil"]

(***************************************************************************)
(* C9  Quote stripping                                                     *)
(***************************************************************************)
HasSuffix(s, p) == Len(p) <= Len(s) /\ SubSeq(s, Len(s) - Len(p) + 1, Len(s)) = p

\* the symbols of EnclosingQuoteSymbols that v both starts and ends with, v being
\* at least two characters long
Enclosing(v) ==
    {i \in 1..Len(options.EnclosingQuoteSymbols) :
        LET q == Utf8(options.EnclosingQuoteSymbols[i])
        IN  Len(v) >= 2 * Len(q) /\ HasPrefix(v, q) /\ HasSuffix(v, q)}

\* v with one enclosing layer removed, when the option is on and v has one
ExpectedUnquoted(v) ==
    IF options.StripEnclosingQuotes /\ Enclosing(v) # {}
    THEN LET q == Utf8(options.EnclosingQuoteSymbols[Min(Enclosing(v))])
         IN  SubSeq(v, Len(q) + 1, Len(v) - Len(q))
    ELSE v

\* C9: the value stored for the line k=value is the value without its first and
\* last character when StripEnclosingQuotes=true and it is at least two characters
\* long and starts and ends with the same symbol of EnclosingQuoteSymbols, and the
\* value unchanged otherwise.
C9_QuoteStripping ==
    (pc = "done" /\ trail = <<"property">>) =>
        Value(GLOBAL_SECTION, <<"k">>) = [val |-> ExpectedUnquoted(RawValueOf(1)), err |-> "nil"]

(***************************************************************************)
(* C11  Add                                                                *)
(***************************************************************************)
AddOptions ==
    {[DefaultIniOptions EXCEPT !.CaseSensitive = c, !.DiscardPropertiesWithNoValue = d] :
        c \in BOOLEAN, d \in BOOLEAN}

\* an input of headers and properties, read completely, then Add calls by the
\* caller, under either setting of DiscardPropertiesWithNoValue
InitAdd ==
    \E o \in AddOptions, f \in SeqsUpTo(CaseLines, MaxLines) : Start(o, f, Len(f), FALSE)

SpecAdd == InitAdd /\ [][Next]_vars

\* the step is the caller's call Add(s, p, v)
IsAddStep(s, p, v) == adds' = adds + 1 /\ lastAdd' = <<[s |-> s, p |-> p, v |-> v]>>

\* the names s2, p2 address another entry of the store than s, p
OtherKey(s2, p2, s, p) == normalise(s2) # normalise(s) \/ normalise(p2) # normalise(p)

\* what Add(s, p, v) establishes
C11_Effect(s, p, v) ==
    /\ SectionExists(s)'
    /\ PropertyExists(s, p)'
    /\ Value(s, p)' = [val |-> v, err |-> "nil"]
    /\ (findSection(s).m[normalise(p)].set)'

\* what Add(s, p, v) leaves alone: existence and value of every other entry (the
\* not-found error of an absent property of the section s changes its wording when
\* the call creates s)
C11_Frame(s, p, v) ==
    /\ \A s2 \in CaseNames :
          normalise(s2) # normalise(s) => SectionExists(s2)' = SectionExists(s2)
    /\ \A s2 \in CaseNames, p2 \in CaseNames :
          OtherKey(s2, p2, s, p) =>
            /\ PropertyExists(s2, p2)' = PropertyExists(s2, p2)
            /\ Value(s2, p2).val' = Value(s2, p2).val
            /\ (Value(s2, p2).err = "nil")' = (Value(s2, p2).err = "nil")

\* C11: after the call Add(s, p, v), made in any state of a constructed IniConfig,
\* SectionExists(s) and PropertyExists(s, p) are true and Value(s, p) returns v
\* (for the empty v too, under either setting of DiscardPropertiesWithNoValue), and
\* every (section, property) whose normalised key differs from that of (s, p)
\* keeps its existence and its value.
C11_Add ==
    [][\A s \in AddSections, p \in AddProperties, v \in AddValues :
          IsAddStep(s, p, v) => (C11_Effect(s, p, v) /\ C11_Frame(s, p, v))]_vars

\* parse stored [a] a=b and [A] A=c, values are discarded when empty, the caller
\* then overwrote a.a with the empty value: a.a exists with value "", A.A is kept
C11_Witness ==
    /\ options.CaseSensitive /\ options.DiscardPropertiesWithNoValue
    /\ adds = 1
    /\ lastAdd = <<[s |-> <<"a">>, p |-> <<"a">>, v |-> <<>>]>>
    /\ file = <<Hdr(<<"a">>), Prop(<<"a">>, <<"b">>), Hdr(<<"A">>)>>
    /\ Value(<<"a">>, <<"a">>) = [val |-> <<>>, err |-> "nil"]

(***************************************************************************)
(* strconv, on the bytes of the model.  The inputs hold none of the bytes   *)
(* 'e', 'E', 'x', 'p', 'i', 'n', '_' and '+', so exponents, hexadecimal     *)
(* floats, "inf", "nan" and digit separators do not occur, and no number    *)
(* is long enough to be out of range.                                       *)
(***************************************************************************)
Digits == {"0", "1", "2", "3", "4", "5", "6", "7", "8", "9"}

DigitValue(c) ==
    CASE c = "0" -> 0 [] c = "1" -> 1 [] c = "2" -> 2 [] c = "3" -> 3 [] c = "4" -> 4
      [] c = "5" -> 5 [] c = "6" -> 6 [] c = "7" -> 7 [] c = "8" -> 8 [] c = "9" -> 9

AllDigits(s) == \A i \in 1..Len(s) : s[i] \in Digits

RECURSIVE Decimal(_)
\* the number a string of digits denotes (0 for the empty string)
Decimal(s) ==
    IF s = <<>> THEN 0 ELSE 10 * Decimal(SubSeq(s, 1, Len(s) - 1)) + DigitValue(s[Len(s)])

RECURSIVE Pow10(_)
Pow10(n) == IF n = 0 THEN 1 ELSE 10 * Pow10(n - 1)

\* strconv.ParseUint(s, 10, 64): digits only, no sign
ParseUint(s) ==
    IF s # <<>> /\ AllDigits(s) THEN [ok |-> TRUE, v |-> Decimal(s)]
                                ELSE [ok |-> FALSE, v |-> 0]

\* strconv.ParseInt(s, 10, 64): an optional sign, then digits
ParseInt(s) ==
    LET neg  == s # <<>> /\ Head(s) = "-"
        body == IF s # <<>> /\ Head(s) \in {"-", "+"} THEN Tail(s) ELSE s
        u    == ParseUint(body)
    IN  IF u.ok THEN [ok |-> TRUE, v |-> IF neg THEN 0 - u.v ELSE u.v]
                ELSE [ok |-> FALSE, v |-> 0]

\* the float64 zero value; a float is the fraction num / den, den a power of ten
ZeroFloat == [num |-> 0, den |-> 1]

\* strconv.ParseFloat(s, 64): an optional sign, digits with at most one '.', at
\* least one digit
ParseFloat(s) ==
    LET neg   == s # <<>> /\ Head(s) = "-"
        body  == IF s # <<>> /\ Head(s) \in {"-", "+"} THEN Tail(s) ELSE s
        d     == FirstOf(body, ".")
        whole == IF d = 0 THEN body ELSE SubSeq(body, 1, d - 1)
        frac  == IF d = 0 THEN <<>> ELSE Drop(body, d)
        n     == Decimal(whole \o frac)
    IN  IF AllDigits(whole) /\ AllDigits(frac) /\ Len(whole) + Len(frac) > 0
        THEN [ok |-> TRUE, v |-> [num |-> IF neg THEN 0 - n ELSE n, den |-> Pow10(Len(frac))]]
        ELSE [ok |-> FALSE, v |-> ZeroFloat]

\* strconv.ParseBool
ParseBool(s) ==
    IF s \in {<<"1">>, <<"t">>, <<"T">>, <<"T", "R", "U", "E">>, <<"t", "r", "u", "e">>,
              <<"T", "r", "u", "e">>}
    THEN [ok |-> TRUE, v |-> TRUE]
    ELSE IF s \in {<<"0">>, <<"f">>, <<"F">>, <<"F", "A", "L", "S", "E">>,
                   <<"f", "a", "l", "s", "e">>, <<"F", "a", "l", "s", "e">>}
    THEN [ok |-> TRUE, v |-> FALSE]
    ELSE [ok |-> FALSE, v |-> FALSE]

\* unicode.ToUpper on one byte of the model
UpperByte(c) ==
    CASE c = "a" -> "A" [] c = "b" -> "B" [] c = "c" -> "C" [] c = "e" -> "E"
      [] c = "f" -> "F" [] c = "h" -> "H" [] c = "p" -> "P" [] c = "s" -> "S"
      [] c = "t" -> "T" [] c = "v" -> "V"
      [] OTHER -> c

\* strings.ToUpper
ToUpper(s) == [i \in 1..Len(s) |-> UpperByte(s[i])]

(***************************************************************************)
(* The typed accessors of IniConfig.  A result is [val, err, args]: err is  *)
(* "nil" or the kind of the error, args the values formatted into its       *)
(* message (left empty for the not-found errors Value returns).             *)
(***************************************************************************)
Result(val, err, args) == [val |-> val, err |-> err, args |-> args]

\* mutant of ValueOrZero: the zero value, found or not
ValueOrZero_blank(sectionName, propertyName) == <<>>

\* IniConfig.ValueOrZero
ValueOrZero(sectionName, propertyName) ==
    LET r == Value(sectionName, propertyName)
    IN  IF r.err = "nil" THEN r.val ELSE <<>>

\* IniConfig.ValueAsFloat64
ValueAsFloat64(sectionName, propertyName) ==
    LET sv == Value(sectionName, propertyName)
        c  == ParseFloat(sv.val)
    IN  IF sv.err # "nil" THEN Result(ZeroFloat, sv.err, <<>>)
        ELSE IF c.ok THEN Result(c.v, "nil", <<>>)
        ELSE Result(ZeroFloat, "Unable to interpret as a float64",
                    <<sectionName, propertyName, sv.val>>)

\* IniConfig.ValueOrZeroAsFloat64
ValueOrZeroAsFloat64(sectionName, propertyName) ==
    LET r == ValueAsFloat64(sectionName, propertyName)
    IN  IF r.err = "nil" THEN r.val ELSE ZeroFloat

\* IniConfig.ValueAsInt64
ValueAsInt64(sectionName, propertyName) ==
    LET sv == Value(sectionName, propertyName)
        c  == ParseInt(sv.val)
    IN  IF sv.err # "nil" THEN Result(0, sv.err, <<>>)
        ELSE IF c.ok THEN Result(c.v, "nil", <<>>)
        ELSE Result(0, "Unable to interpret as an int64",
                    <<sectionName, propertyName, sv.val>>)

\* IniConfig.ValueOrZeroAsInt64
ValueOrZeroAsInt64(sectionName, propertyName) ==
    LET r == ValueAsInt64(sectionName, propertyName)
    IN  IF r.err = "nil" THEN r.val ELSE 0

\* IniConfig.ValueAsUint64
ValueAsUint64(sectionName, propertyName) ==
    LET sv == Value(sectionName, propertyName)
        c  == ParseUint(sv.val)
    IN  IF sv.err # "nil" THEN Result(0, sv.err, <<>>)
        ELSE IF c.ok THEN Result(c.v, "nil", <<>>)
        ELSE Result(0, "Unable to interpret as a uint64",
                    <<sectionName, propertyName, sv.val>>)

\* IniConfig.ValueOrZeroAsUint64
ValueOrZeroAsUint64(sectionName, propertyName) ==
    LET r == ValueAsUint64(sectionName, propertyName)
    IN  IF r.err = "nil" THEN r.val ELSE 0

\* mutant of strictMatch: the comparison is always exact
strictMatch_exact(sv, word) == sv = word

\* ValueAsBool: sv == strictTrue (or strictFalse), both upper-cased unless
\* StrictBoolCaseSensitive
strictMatch(sv, word) ==
    IF options.StrictBoolCaseSensitive THEN sv = word ELSE ToUpper(sv) = ToUpper(word)

\* IniConfig.ValueAsBool
ValueAsBool(sectionName, propertyName) ==
    LET sv == Value(sectionName, propertyName)
        c  == ParseBool(sv.val)
    IN  IF sv.err # "nil" THEN Result(FALSE, sv.err, <<>>)
        ELSE IF options.UseGoBoolRules THEN
            IF c.ok THEN Result(c.v, "nil", <<>>)
            ELSE Result(FALSE, "Unable to interpret as a Go bool", <<sectionName, propertyName>>)
        ELSE IF strictMatch(sv.val, options.StrictBoolTrue) THEN Result(TRUE, "nil", <<>>)
        ELSE IF strictMatch(sv.val, options.StrictBoolFalse) THEN Result(FALSE, "nil", <<>>)
        ELSE Result(FALSE, "Value could not be matched",
                    <<sectionName, propertyName, sv.val,
                      options.StrictBoolTrue, options.StrictBoolFalse>>)

\* IniConfig.ValueOrZeroAsBool
ValueOrZeroAsBool(sectionName, propertyName) ==
    LET r == ValueAsBool(sectionName, propertyName)
    IN  IF r.err = "nil" THEN r.val ELSE FALSE

\* the error-returning accessors and their or-zero variants
Accessors == {"Value", "ValueAsFloat64", "ValueAsInt64", "ValueAsUint64", "ValueAsBool"}
OrZeroAccessors ==
    {"ValueOrZero", "ValueOrZeroAsFloat64", "ValueOrZeroAsInt64", "ValueOrZeroAsUint64",
     "ValueOrZeroAsBool"}

\* what the accessor op returns for (s, p)
Call(op, s, p) ==
    CASE op = "Value"                -> Result(Value(s, p).val, Value(s, p).err, <<>>)
      [] op = "ValueAsFloat64"       -> ValueAsFloat64(s, p)
      [] op = "ValueAsInt64"         -> ValueAsInt64(s, p)
      [] op = "ValueAsUint64"        -> ValueAsUint64(s, p)
      [] op = "ValueAsBool"          -> ValueAsBool(s, p)
      [] op = "ValueOrZero"          -> [val |-> ValueOrZero(s, p)]
      [] op = "ValueOrZeroAsFloat64" -> [val |-> ValueOrZeroAsFloat64(s, p)]
      [] op = "ValueOrZeroAsInt64"   -> [val |-> ValueOrZeroAsInt64(s, p)]
      [] op = "ValueOrZeroAsUint64"  -> [val |-> ValueOrZeroAsUint64(s, p)]
      [] op = "ValueOrZeroAsBool"    -> [val |-> ValueOrZeroAsBool(s, p)]

\* the names the caller queries
GetSections == {<<>>, <<"a">>}
GetProperties == {<<"k">>, <<"j">>}

\* the caller calls an accessor on the IniConfig the constructor returned
CallAccessor ==
    /\ pc = "done"
    /\ ret.ic
    /\ \E op \in Accessors \cup OrZeroAccessors, s \in GetSections, p \in GetProperties :
          lastGet' = <<[op |-> op, s |-> s, p |-> p, res |-> Call(op, s, p)]>>
    /\ UNCHANGED <<nilFile, nilOptions, options, file, delivered, scanErr, pc, lineNumber,
                   section, sections, ret, adds, lastAdd, trail, views>>

AccessNext == ParseNext \/ CallAccessor

\* the bytes of the values the typed accessors convert
TypedBytes == {"1", "-", ".", "t", "f"}

TypedOptions ==
    {[DefaultIniOptions EXCEPT !.UseGoBoolRules = g, !.DiscardPropertiesWithNoValue = d,
                               !.StrictBoolTrue = <<"t">>, !.StrictBoolFalse = <<"f">>] :
        g \in BOOLEAN, d \in BOOLEAN}

\* one global property k=value, then accessor calls by the caller
InitTyped ==
    \E o \in TypedOptions, v \in SeqsUpTo(TypedBytes, MaxValueLen) :
        Start(o, <<Prop(<<"k">>, v)>>, 1, FALSE)

SpecTyped == InitTyped /\ [][AccessNext]_vars

(***************************************************************************)
(* C12  Or-zero accessors                                                  *)
(***************************************************************************)
\* the error-returning accessor an or-zero accessor wraps
Wrapped(op) ==
    CASE op = "ValueOrZero"          -> "Value"
      [] op = "ValueOrZeroAsFloat64" -> "ValueAsFloat64"
      [] op = "ValueOrZeroAsInt64"   -> "ValueAsInt64"
      [] op = "ValueOrZeroAsUint64"  -> "ValueAsUint64"
      [] op = "ValueOrZeroAsBool"    -> "ValueAsBool"

\* the zero value of the type an or-zero accessor returns
ZeroOf(op) ==
    CASE op = "ValueOrZero"          -> <<>>
      [] op = "ValueOrZeroAsFloat64" -> ZeroFloat
      [] op = "ValueOrZeroAsInt64"   -> 0
      [] op = "ValueOrZeroAsUint64"  -> 0
      [] op = "ValueOrZeroAsBool"    -> FALSE

\* the or-zero accessor op agrees with the accessor it wraps on (s, p)
OrZeroAgrees(op, s, p) ==
    LET base == Call(Wrapped(op), s, p)
    IN  Call(op, s, p).val = IF base.err = "nil" THEN base.val ELSE ZeroOf(op)

C12_State ==
    /\ (pc = "done" /\ ret.ic) =>
          \A op \in OrZeroAccessors, s \in GetSections, p \in GetProperties :
              OrZeroAgrees(op, s, p)
    /\ (lastGet # <<>> /\ lastGet[1].op \in OrZeroAccessors) =>
          /\ OrZeroAgrees(lastGet[1].op, lastGet[1].s, lastGet[1].p)
          /\ lastGet[1].res = Call(lastGet[1].op, lastGet[1].s, lastGet[1].p)

C12_Step == lastGet' # lastGet => sections' = sections

\* C12: in every state and for every (section, property) each or-zero accessor
\* returns what the error-returning accessor it wraps returns when that one
\* succeeds and the zero value of its type ("", 0, 0, 0, false) when that one fails
\* (not found, or not convertible), and no accessor call changes the store.
C12_OrZero == [] C12_State /\ [][C12_Step]_vars

\* the stored value -1 converts to an int64 but not to a uint64: the caller's
\* ValueOrZeroAsUint64 returned 0 while ValueOrZeroAsInt64 returns -1
C12_Witness ==
    /\ lastGet = <<[op |-> "ValueOrZeroAsUint64", s |-> <<>>, p |-> <<"k">>, res |-> [val |-> 0]]>>
    /\ Value(<<>>, <<"k">>) = [val |-> <<"-", "1">>, err |-> "nil"]
    /\ ValueAsUint64(<<>>, <<"k">>).err # "nil"
    /\ ValueOrZeroAsInt64(<<>>, <<"k">>) = 0 - 1
    /\ ValueOrZeroAsFloat64(<<>>, <<"k">>) = [num |-> 0 - 1, den |-> 1]

(***************************************************************************)
(* C13  Strict boolean mode                                                *)
(***************************************************************************)
\* the words of the strict-mode inputs: the default "", and words that are equal or
\* differ only in case
StrictWords == {<<>>, <<"t">>, <<"T">>, <<"f">>}

StrictOptions ==
    {[DefaultIniOptions EXCEPT !.UseGoBoolRules = FALSE, !.DiscardPropertiesWithNoValue = FALSE,
                               !.StrictBoolTrue = t, !.StrictBoolFalse = f,
                               !.StrictBoolCaseSensitive = c] :
        t \in StrictWords, f \in StrictWords, c \in BOOLEAN}

\* one global property k=value, then accessor calls by the caller
InitStrict ==
    \E o \in StrictOptions, v \in StrictWords \cup {<<"1">>} :
        Start(o, <<Prop(<<"k">>, v)>>, 1, FALSE)

SpecStrict == InitStrict /\ [][AccessNext]_vars

\* equality of a stored value and a configured word: exact when
\* StrictBoolCaseSensitive, otherwise up to the case of the letters
StrictEqual(a, b) ==
    IF options.StrictBoolCaseSensitive THEN a = b ELSE ToLower(a) = ToLower(b)

\* the stored value of the global property k, once the constructor has returned it
StrictStored == pc = "done" /\ ret.ic /\ Value(GLOBAL_SECTION, <<"k">>).err = "nil"
StrictValue == Value(GLOBAL_SECTION, <<"k">>).val
StrictResult == ValueAsBool(GLOBAL_SECTION, <<"k">>)

\* C13 as claimed: ValueAsBool returns true when the value equals StrictBoolTrue,
\* false when the value equals StrictBoolFalse, and an error for any other value.
C13_Original ==
    StrictStored =>
        /\ StrictEqual(StrictValue, options.StrictBoolTrue) =>
              (StrictResult.err = "nil" /\ StrictResult.val = TRUE)
        /\ StrictEqual(StrictValue, options.StrictBoolFalse) =>
              (StrictResult.err = "nil" /\ StrictResult.val = FALSE)
        /\ (/\ ~StrictEqual(StrictValue, options.StrictBoolTrue)
            /\ ~StrictEqual(StrictValue, options.StrictBoolFalse)) => StrictResult.err # "nil"

\* C13 amended: in strict mode ValueAsBool returns true when the value equals
\* StrictBoolTrue (also when it equals StrictBoolFalse as well: StrictBoolTrue is
\* compared first), returns false when the value equals StrictBoolFalse and not
\* StrictBoolTrue, and returns an error for any other value; equality is exact when
\* StrictBoolCaseSensitive=true and ignores the case of letters when it is false.
C13_StrictBool ==
    /\ StrictStored =>
        /\ StrictEqual(StrictValue, options.StrictBoolTrue) =>
              (StrictResult.err = "nil" /\ StrictResult.val = TRUE)
        /\ (/\ StrictEqual(StrictValue, options.StrictBoolFalse)
            /\ ~StrictEqual(StrictValue, options.StrictBoolTrue)) =>
              (StrictResult.err = "nil" /\ StrictResult.val = FALSE)
        /\ (/\ ~StrictEqual(StrictValue, options.StrictBoolTrue)
            /\ ~StrictEqual(StrictValue, options.StrictBoolFalse)) => StrictResult.err # "nil"
    /\ (/\ lastGet # <<>> /\ lastGet[1].op = "ValueAsBool"
        /\ lastGet[1].s = GLOBAL_SECTION /\ lastGet[1].p = <<"k">>) =>
            lastGet[1].res = StrictResult

\* StrictBoolTrue "t" and StrictBoolFalse "T" differ only in case, matching ignores
\* case, the stored value is "T": the caller's ValueAsBool returned true
C13_Witness ==
    /\ ~options.StrictBoolCaseSensitive
    /\ options.StrictBoolTrue = <<"t">> /\ options.StrictBoolFalse = <<"T">>
    /\ StrictStored /\ StrictValue = <<"T">>
    /\ lastGet = <<[op |-> "ValueAsBool", s |-> GLOBAL_SECTION, p |-> <<"k">>,
                    res |-> Result(TRUE, "nil", <<>>)]>>

(***************************************************************************)
(* C14  The options object after construction                              *)
(***************************************************************************)
\* what the caller can make of the IniOptions object o by assigning one of the
\* fields the accessors read
FieldEdits(o) ==
    {[o EXCEPT !.CaseSensitive = ~@], [o EXCEPT !.UseGoBoolRules = ~@],
     [o EXCEPT !.StrictBoolCaseSensitive = ~@]}
      \cup {[o EXCEPT !.StrictBoolTrue = w] : w \in StrictWords \ {o.StrictBoolTrue}}
      \cup {[o EXCEPT !.StrictBoolFalse = w] : w \in StrictWords \ {o.StrictBoolFalse}}

\* the caller assigns a field of the IniOptions object it passed to the
\* constructor; ic.options points to that object
CallerSetsOption ==
    /\ pc = "done"
    /\ ret.ic
    /\ options' \in FieldEdits(options)
    /\ UNCHANGED <<nilFile, nilOptions, file, delivered, scanErr, pc, lineNumber,
                   section, sections, ret, adds, lastAdd, trail, views, lastGet>>

OptionsNext == ParseNext \/ CallerSetsOption

\* a section and properties whose names and values have upper-case letters
OptionsLines == {Hdr(<<"A">>), Prop(<<"A">>, <<"T">>), Prop(<<"a">>, <<"t">>)}

\* an input of such lines, read completely, then assignments to the options object
InitOptions ==
    \E o \in CaseOptions, f \in SeqsUpTo(OptionsLines, MaxLines) : Start(o, f, Len(f), FALSE)

SpecOptions == InitOptions /\ [][OptionsNext]_vars

\* C14: once the constructor has returned an IniConfig, a later assignment by the
\* caller to a field of the IniOptions object it passed in changes no result of
\* SectionExists, PropertyExists, Value or ValueAsBool on that IniConfig.
C14_OptionsImmutable ==
    [][(pc = "done" /\ ret.ic /\ options' # options) =>
          \A s \in CaseNames, p \in CaseNames :
            /\ SectionExists(s)' = SectionExists(s)
            /\ PropertyExists(s, p)' = PropertyExists(s, p)
            /\ Value(s, p)' = Value(s, p)
            /\ ValueAsBool(s, p).val' = ValueAsBool(s, p).val
            /\ ValueAsBool(s, p).err' = ValueAsBool(s, p).err]_vars

(***************************************************************************)
(* C15  Conversion error content                                           *)
(***************************************************************************)
\* the error of the result r names x: x is one of the values formatted into it
Names(r, x) == \E i \in 1..Len(r.args) : r.args[i] = x

\* C15: when ValueAsFloat64, ValueAsInt64, ValueAsUint64 or ValueAsBool fails on a
\* stored string that cannot be converted, the error names the section, the
\* property and the raw stored value; when the section or the property is absent
\* the error is the not-found error of Value.
C15_ConversionErrors ==
    (pc = "done" /\ ret.ic) =>
        \A op \in Accessors \ {"Value"}, s \in GetSections, p \in GetProperties :
            LET r  == Call(op, s, p)
                sv == Value(s, p)
            IN  /\ sv.err # "nil" => (r.err = sv.err /\ r.args = <<>>)
                /\ (sv.err = "nil" /\ r.err # "nil") =>
                      (Names(r, s) /\ Names(r, p) /\ Names(r, sv.val))

(***************************************************************************)
(* IniSection: a view is the pair (name, ic); there is one IniConfig, so a  *)
(* view is modelled by the record of its name.                              *)
(***************************************************************************)
\* IniConfig.Section: (*IniSection, error); view is <<>> for nil
Section(sectionName) ==
    IF SectionExists(sectionName)
    THEN [view |-> <<[name |-> sectionName]>>, err |-> "nil"]
    ELSE [view |-> <<>>, err |-> "Section does not exist"]

\* IniSection.PropertyExists
IniSection_PropertyExists(is, propertyName) == PropertyExists(is.name, propertyName)

\* IniSection.Value
IniSection_Value(is, propertyName) == Value(is.name, propertyName)

\* IniSection.ValueOrZero, ValueAsFloat64, ... ValueOrZeroAsBool: each calls the
\* method of the same name of is.ic with is.name
IniSection_Call(op, is, propertyName) == Call(op, is.name, propertyName)

\* mutant of IniSection_Add: the property is stored under the global section
IniSection_Add_global(secs, is, propertyName, value) ==
    Add(secs, GLOBAL_SECTION, propertyName, value)

\* IniSection.Add, on the store of is.ic
IniSection_Add(secs, is, propertyName, value) == Add(secs, is.name, propertyName, value)

\* the caller calls ic.Section(n) and keeps the view it gets, if any
CallSection ==
    /\ pc = "done"
    /\ ret.ic
    /\ \E n \in AddSections :
          /\ Section(n).err = "nil"
          /\ views' = views \cup {Section(n).view[1].name}
    /\ UNCHANGED <<nilFile, nilOptions, options, file, delivered, scanErr, pc, lineNumber,
                   section, sections, ret, adds, lastAdd, trail, lastGet>>

\* the caller calls Add on a view it holds
ViewAdd ==
    /\ pc = "done"
    /\ adds < MaxAdds
    /\ \E n \in views, p \in AddProperties, v \in AddValues :
          /\ sections' = IniSection_Add(sections, [name |-> n], p, v)
          /\ lastAdd' = <<[s |-> n, p |-> p, v |-> v]>>
          /\ lastGet' = <<[op |-> "IniSection.Add", s |-> n, p |-> p, res |-> [val |-> v]]>>
    /\ adds' = adds + 1
    /\ UNCHANGED <<nilFile, nilOptions, options, file, delivered, scanErr, pc, lineNumber,
                   section, ret, trail, views>>

ViewNext == ParseNext \/ CallAdd \/ CallSection \/ ViewAdd

ViewLines == {Hdr(<<"a">>), Prop(<<"a">>, <<"b">>)}

\* an input of headers [a] and properties a=b, read completely, then Section and
\* Add calls by the caller, on the IniConfig and on the views
InitViews ==
    \E o \in CaseOptions, f \in SeqsUpTo(ViewLines, MaxLines) : Start(o, f, Len(f), FALSE)

SpecViews == InitViews /\ [][ViewNext]_vars

(***************************************************************************)
(* C16  Section view equivalence                                           *)
(***************************************************************************)
\* Section(n) returns a view exactly when SectionExists(n), else nil and an error
C16_SectionReturns ==
    (pc = "done" /\ ret.ic) =>
        \A n \in CaseNames :
            IF SectionExists(n)
            THEN Section(n) = [view |-> <<[name |-> n]>>, err |-> "nil"]
            ELSE Section(n).view = <<>> /\ Section(n).err # "nil"

\* every operation of every view the caller holds answers as the IniConfig does
\* for the view's section
C16_SameAnswers ==
    \A n \in views, p \in CaseNames \cup GetProperties :
        /\ IniSection_PropertyExists([name |-> n], p) = PropertyExists(n, p)
        /\ IniSection_Value([name |-> n], p) = Value(n, p)
        /\ \A op \in (Accessors \cup OrZeroAccessors) :
              IniSection_Call(op, [name |-> n], p) = Call(op, n, p)

\* Add on a view changes the store as ic.Add with the view's section name does
C16_SameAdd ==
    \A n \in AddSections, p \in AddProperties, v \in AddValues :
        (lastGet' # lastGet
           /\ lastGet' = <<[op |-> "IniSection.Add", s |-> n, p |-> p, res |-> [val |-> v]]>>)
        => (n \in views /\ sections' = Add(sections, n, p, v))

\* C16: Section(n) returns a view exactly when SectionExists(n), and an error with a
\* nil view otherwise; in every later state each operation of a view of section n
\* returns what the IniConfig's operation returns for (n, p), and Add on the view
\* changes the store exactly as ic.Add(n, p, v) does.
C16_SectionView ==
    /\ [] (C16_SectionReturns /\ C16_SameAnswers)
    /\ [][C16_SameAdd]_vars

\* the caller took a view of section a, which held a=b, and overwrote a through the
\* view: the IniConfig returns the new value
C16_Witness ==
    /\ <<"a">> \in views
    /\ file = <<Hdr(<<"a">>), Prop(<<"a">>, <<"b">>)>>
    /\ lastGet = <<[op |-> "IniSection.Add", s |-> <<"a">>, p |-> <<"a">>, res |-> [val |-> <<>>]]>>
    /\ Value(<<"a">>, <<"a">>) = [val |-> <<>>, err |-> "nil"]
    /\ IniSection_Value([name |-> <<"a">>], <<"a">>) = [val |-> <<>>, err |-> "nil"]

(***************************************************************************)
(* C17  The global section name                                            *)
(***************************************************************************)
\* C17: in every state of a constructed IniConfig, also one to which no global
\* property was ever added, Section(GLOBAL_SECTION) returns a view and no error.
C17_GlobalAlwaysLegal ==
    (pc = "done" /\ ret.ic) =>
        (Section(GLOBAL_SECTION).err = "nil" /\ Section(GLOBAL_SECTION).view # <<>>)

(***************************************************************************)
(* C18  Whitespace around names and values                                 *)
(***************************************************************************)
\* the whitespace written at each of the four places of a property line
SpaceRuns == {<<>>, <<" ">>, <<"\t">>}

SpaceOptions == {[DefaultIniOptions EXCEPT !.TrimProperties = t] : t \in BOOLEAN}

\* [S] followed by a property line with whitespace before the name, between name
\* and separator, between separator and value, and after the value
InitSpace ==
    \E o \in SpaceOptions, w1 \in SpaceRuns, w2 \in SpaceRuns, w3 \in SpaceRuns, w4 \in SpaceRuns :
        Start(o, <<Hdr(<<"S">>), w1 \o <<"a">> \o w2 \o <<"=">> \o w3 \o <<"b">> \o w4>>, 2, FALSE)

SpecSpace == InitSpace /\ [][ParseNext]_vars

\* the name and the value as written on the line, with all whitespace around them
WrittenName  == SubSeq(file[2], 1, FirstOf(file[2], "=") - 1)
WrittenValue == Drop(file[2], FirstOf(file[2], "="))

\* C18: with TrimProperties=true the property is stored under the name and with
\* the value stripped of the whitespace on either side; with TrimProperties=false
\* name and value are stored with all the whitespace written around them on the
\* line (before the name, between name and separator, between separator and
\* value, after the value).
C18_Whitespace ==
    pc = "done" =>
        /\ ret.ic
        /\ IF options.TrimProperties
           THEN Value(<<"S">>, TrimSpace(WrittenName))
                    = [val |-> TrimSpace(WrittenValue), err |-> "nil"]
           ELSE Value(<<"S">>, WrittenName) = [val |-> WrittenValue, err |-> "nil"]

(***************************************************************************)
(* C19  Unparseable lines                                                  *)
(***************************************************************************)
RECURSIVE parseFrom(_, _, _, _)
\* parse as a function of the input: the scan loop from line n + 1 of lines on,
\* with current section sec and store secs; the error returned and the store built
parseFrom(lines, n, sec, secs) ==
    IF n = Len(lines) THEN [err |-> NoError, sections |-> secs]
    ELSE LET r == parseLine(lines[n + 1], n + 1, sec, secs)
         IN  IF r.err.kind # "nil" THEN [err |-> r.err, sections |-> r.sections]
             ELSE parseFrom(lines, n + 1, r.section, r.sections)

\* the text is neither blank, nor a comment, nor a section header, nor a property
IsOtherText(text) ==
    LET l == TrimSpace(text)
    IN  /\ l # <<>>
        /\ ~HasPrefix(l, options.CommentStart)
        /\ ~rx_section(stripInlineComments(l)).matched
        /\ ~propRx(stripInlineComments(l)).matched

IsParseable(text) == ~IsOtherText(text)

\* the input with its unparseable lines removed
WithoutOther(lines) == SelectSeq(lines, IsParseable)

\* C19: with IgnoreUnparseable=false an unparseable line that parse reaches makes
\* the constructor return no IniConfig and the unparseable-line error with that
\* line's number, and no input holding such a line yields an IniConfig; with
\* IgnoreUnparseable=true the constructor never returns the unparseable-line error
\* and ends as the parse of the input without its unparseable lines ends: same
\* success or kind of failure, same store.
C19_Unparseable ==
    pc = "done" =>
        IF ~options.IgnoreUnparseable
        THEN /\ \A i \in Handled :
                  IsOtherLine(i) => ret = [ic |-> FALSE, err |-> errorf("Unparseable line", i)]
             /\ (\E i \in 1..Len(file) : IsOtherLine(i)) => ~ret.ic
        ELSE LET q == parseFrom(WithoutOther(file), 0, GLOBAL_SECTION, <<>>)
             IN  /\ ret.err.kind # "Unparseable line"
                 /\ ret.ic = (q.err.kind = "nil")
                 /\ ret.err.kind = q.err.kind
                 /\ sections = q.sections

\* [a], an unparseable line, a=b with IgnoreUnparseable=true: the line was skipped
\* and a=b is stored in section a
C19_Witness ==
    /\ pc = "done" /\ ret.ic
    /\ options.IgnoreUnparseable
    /\ file = <<Hdr(<<"a">>), <<"a">>, Prop(<<"a">>, <<"b">>)>>
    /\ trail = <<"section", "skipped", "property">>
    /\ Len(WithoutOther(file)) = 2
    /\ Value(<<"a">>, <<"a">>) = [val |-> <<"b">>, err |-> "nil"]

(***************************************************************************)
(* C20  Validation before reading                                          *)
(***************************************************************************)
\* comment markers: the default, the empty string, whitespace only
ValidateMarkers == {<<";">>, <<>>, <<" ">>, <<" ", "\t">>}

\* any arguments: a nil or non-nil file, nil or non-nil options, any marker, any
\* input (lines that fail to parse included)
InitValidate ==
    \E nf \in BOOLEAN, no \in BOOLEAN, c \in ValidateMarkers,
       f \in SeqsUpTo(ParseLines, MaxLines) :
        /\ nilFile = nf
        /\ nilOptions = no
        /\ options = [DefaultIniOptions EXCEPT !.CommentStart = c]
        /\ file = f
        /\ delivered = Len(f)
        /\ scanErr = FALSE
        /\ pc = "new"
        /\ lineNumber = 0
        /\ section = GLOBAL_SECTION
        /\ sections = <<>>
        /\ ret = [ic |-> FALSE, err |-> NoError]
        /\ adds = 0
        /\ lastAdd = <<>>
        /\ trail = <<>>
        /\ views = {}
        /\ lastGet = <<>>

SpecValidate == InitValidate /\ [][ParseNext]_vars

\* the validation error the arguments earn, "nil" when they are valid
ValidationKind ==
    IF nilFile THEN "Nil file provided"
    ELSE IF nilOptions THEN "Nil IniOptions provided"
    ELSE IF TrimSpace(options.CommentStart) = <<>> THEN "CommentStart cannot be empty"
    ELSE "nil"

\* C20: when the constructor is called with a nil file, nil options or a
\* CommentStart that is empty or only whitespace, no line of the input is ever
\* consumed, and the constructor returns the validation error and no IniConfig,
\* whatever the input holds.
C20_ValidatedFirst ==
    ValidationKind # "nil" =>
        /\ pc # "parse"
        /\ lineNumber = 0 /\ trail = <<>> /\ sections = <<>>
        /\ pc = "done" => ret = [ic |-> FALSE, err |-> errorf(ValidationKind, 0)]

\* a non-nil file whose first line is unparseable, non-nil options with a
\* whitespace CommentStart: the constructor returned the validation error
C20_Witness ==
    /\ pc = "done"
    /\ ~nilFile /\ ~nilOptions
    /\ options.CommentStart = <<" ", "\t">>
    /\ Len(file) = MaxLines /\ IsOtherText(file[1])
    /\ ret = [ic |-> FALSE, err |-> errorf("CommentStart cannot be empty", 0)]

(***************************************************************************)
(* C21  Key/value split                                                    *)
(***************************************************************************)
SplitOptions ==
    {[DefaultIniOptions EXCEPT !.UseColonAssignment = c, !.DiscardPropertiesWithNoValue = FALSE,
                               !.TrimProperties = FALSE] :
        c \in BOOLEAN}

\* [S] followed by a line of letters and separators of either mode
InitSplit ==
    \E o \in SplitOptions, l \in SeqsUpTo({"a", "b", "=", ":"}, MaxLineLen) :
        Start(o, <<Hdr(<<"S">>), l>>, 2, FALSE)

SpecSplit == InitSplit /\ [][ParseNext]_vars

\* the separator of the mode in force
ActiveSeparator == IF options.UseColonAssignment THEN ":" ELSE "="

\* the text of line 2 before and after the first occurrence of the separator
BeforeFirst == SubSeq(file[2], 1, FirstOf(file[2], ActiveSeparator) - 1)
AfterFirst  == Drop(file[2], FirstOf(file[2], ActiveSeparator))

\* C21: when parse handles line 2 as a property, in either mode, the property is
\* stored under the text before the first occurrence of the active separator with
\* all the text after that occurrence as its value.
C21_FirstSeparator ==
    (pc = "done" /\ Len(trail) = 2 /\ trail[2] = "property") =>
        /\ DOMAIN sections = {<<"S">>}
        /\ DOMAIN sections[<<"S">>] = {BeforeFirst}
        /\ Value(<<"S">>, BeforeFirst) = [val |-> AfterFirst, err |-> "nil"]

(***************************************************************************)
(* C22  Line classification ladder                                         *)
(***************************************************************************)
LadderOptions ==
    {[DefaultIniOptions EXCEPT !.IgnoreUnparseable = i, !.DiscardPropertiesWithNoValue = FALSE] :
        i \in BOOLEAN}

\* [S] followed by a line of letters, separators, brackets and comment markers
InitLadder ==
    \E o \in LadderOptions, l \in SeqsUpTo({"a", "=", "[", "]", ";"}, MaxLineLen) :
        Start(o, <<Hdr(<<"S">>), l>>, 2, FALSE)

SpecLadder == InitLadder /\ [][ParseNext]_vars

\* the text has the form '[' name ']'
IsBracketed(l) == Len(l) >= 2 /\ l[1] = "[" /\ l[Len(l)] = "]"

\* the first rung of the ladder the text of line 2 satisfies
Rung ==
    LET l == Stripped(2)
    IN  IF LineText(2) = <<>> THEN "blank"
        ELSE IF HasPrefix(LineText(2), options.CommentStart) THEN "comment"
        ELSE IF IsBracketed(l) THEN "section"
        ELSE IF FirstOf(l, "=") > 0 THEN "property"
        ELSE "reject"

LadderKey   == SubSeq(Stripped(2), 1, FirstOf(Stripped(2), "=") - 1)
LadderValue == Drop(Stripped(2), FirstOf(Stripped(2), "="))

\* C22: line 2 gets the outcome of the first rung it satisfies in the order
\* comment, section, property, reject, the section rung being satisfied only by a
\* line of the form [name]: a comment is skipped, a header only changes the
\* current section, a line with '=' that is not of that form is stored as a
\* property of the current section S and leaves the current section alone, and
\* any other line is rejected (skipped under IgnoreUnparseable).
C22_Ladder ==
    (pc = "done" /\ Len(trail) = 2) =>
        CASE Rung \in {"blank", "comment"} ->
                trail[2] = Rung /\ section = <<"S">> /\ sections = <<>> /\ ret.ic
          [] Rung = "section" ->
                /\ trail[2] = "section" /\ sections = <<>> /\ ret.ic
                /\ section = SubSeq(Stripped(2), 2, Len(Stripped(2)) - 1)
          [] Rung = "property" ->
                /\ trail[2] = "property" /\ section = <<"S">> /\ ret.ic
                /\ DOMAIN sections = {<<"S">>}
                /\ Value(<<"S">>, LadderKey) = [val |-> LadderValue, err |-> "nil"]
          [] Rung = "reject" ->
                /\ section = <<"S">> /\ sections = <<>>
                /\ IF options.IgnoreUnparseable
                   THEN trail[2] = "skipped" /\ ret.ic
                   ELSE ret = [ic |-> FALSE, err |-> errorf("Unparseable line", 2)]

(***************************************************************************)
(* C23  Malformed section header                                           *)
(***************************************************************************)
\* line 2 opens a bracket but is not a header of the form [name]
IsMalformedHeader == LineText(2) # <<>> /\ LineText(2)[1] = "[" /\ ~IsBracketed(Stripped(2))

\* C23: a line that opens a bracket without being a well-formed [name] header makes
\* the constructor return no IniConfig and the unparseable-section error with the
\* line's number, under either setting of IgnoreUnparseable.
C23_MalformedHeader ==
    (pc = "done" /\ IsMalformedHeader) =>
        ret = [ic |-> FALSE, err |-> errorf("Unparseable section line", 2)]

(***************************************************************************)
(* C24  Current-section tracking                                           *)
(***************************************************************************)
TrackSections == {GLOBAL_SECTION, <<"a">>, <<"b">>}
TrackKeys == {<<"k">>, <<"j">>}

\* headers of two sections, and properties that assign a key twice
TrackLines ==
    {Hdr(<<"a">>), Hdr(<<"b">>), Prop(<<"k">>, <<"b">>), Prop(<<"k">>, <<"c">>),
     Prop(<<"j">>, <<"b">>)}

TrackOptions == {[DefaultIniOptions EXCEPT !.AllowGlobalSection = g] : g \in BOOLEAN}

InitTrack ==
    \E o \in TrackOptions, f \in SeqsUpTo(TrackLines, MaxTrackLines) : Start(o, f, Len(f), FALSE)

SpecTrack == InitTrack /\ [][ParseNext]_vars

\* the property lines that assign key p while the most recent header names s
AssignersOf(s, p) ==
    {i \in 1..Len(file) : IsPropertyLine(i) /\ SectionAt(i) = s /\ KeyOf(i) = p}

\* C24: after a successful parse a property (s, p) exists exactly when some property
\* line assigns p while the most recent header line before it names s (no header:
\* GLOBAL_SECTION), wherever in the input the headers naming s stand, and its value
\* is the value of the last such line; the store holds nothing else.
C24_SectionTracking ==
    (pc = "done" /\ ret.ic) =>
        /\ \A s \in TrackSections, p \in TrackKeys :
              IF AssignersOf(s, p) = {}
              THEN ~PropertyExists(s, p)
              ELSE Value(s, p) = [val |-> RawValueOf(Max(AssignersOf(s, p))), err |-> "nil"]
        /\ DOMAIN sections \subseteq TrackSections
        /\ \A s \in DOMAIN sections : DOMAIN sections[s] \subseteq TrackKeys

\* the input [a] k=b [a] k=c,
\* read completely: the second header a adds to the same section and the later
\* assignment of k is the one stored
C24_Witness ==
    /\ pc = "done" /\ ret.ic
    /\ file = <<Hdr(<<"a">>), Prop(<<"k">>, <<"b">>), Hdr(<<"a">>), Prop(<<"k">>, <<"c">>)>>
    /\ AssignersOf(<<"a">>, <<"k">>) = {2, 4}
    /\ DOMAIN sections = {<<"a">>}
    /\ Value(<<"a">>, <<"k">>) = [val |-> <<"c">>, err |-> "nil"]

(***************************************************************************)
(* C25  Existence invariants of the store                                  *)
(***************************************************************************)
C25_State ==
    /\ \A s \in CaseNames, p \in CaseNames :
          /\ PropertyExists(s, p) <=> (Value(s, p).err = "nil")
          /\ PropertyExists(s, p) => SectionExists(s)
    /\ \A s \in CaseNames : SectionExists(s) => DOMAIN findSection(s).m # {}
    /\ \A s \in DOMAIN sections : \A p \in DOMAIN sections[s] : sections[s][p].set

C25_Step ==
    \A s \in CaseNames, p \in CaseNames :
        /\ PropertyExists(s, p) => PropertyExists(s, p)'
        /\ SectionExists(s) => SectionExists(s)'

\* C25: in every state reached by a parse followed by Add calls, PropertyExists(s, p)
\* holds exactly when Value(s, p) returns no error and implies SectionExists(s), a
\* section that exists holds at least one property, every stored cell has its set
\* flag true, and a property (and a section) that exists still exists after every
\* step.
C25_Existence == [] C25_State /\ [][C25_Step]_vars

\* the caller's Add created section A with the empty value for a, beside the
\* section a the parse stored
C25_Witness ==
    /\ options.CaseSensitive
    /\ adds = 1
    /\ lastAdd = <<[s |-> <<"A">>, p |-> <<"a">>, v |-> <<>>]>>
    /\ DOMAIN sections = {<<"a">>, <<"A">>}
    /\ sections[<<"A">>][<<"a">>] = [val |-> <<>>, set |-> TRUE]
    /\ PropertyExists(<<"A">>, <<"a">>) /\ ~PropertyExists(<<"A">>, <<"A">>)

(***************************************************************************)
(* C26  Inline-comment stripping of lines without a comment marker         *)
(***************************************************************************)
\* the pieces a line is put together from: bytes, and the text of the placeholder
Pieces == {<<"a">>, <<"=">>, <<"\\">>, ph}

RECURSIVE Flatten(_)
Flatten(ps) == IF ps = <<>> THEN <<>> ELSE Head(ps) \o Flatten(Tail(ps))

PlaceholderOptions ==
    {[DefaultIniOptions EXCEPT !.AllowInlineComments = TRUE, !.CommentStart = <<c>>,
                               !.CommentEscapePrefix = e,
                               !.IgnoreUnparseable = TRUE] :
        c \in {";", "#", "?"}, e \in {<<"\\">>, <<"a">>}}

\* one line of at most MaxPieces pieces
InitPlaceholder ==
    \E o \in PlaceholderOptions, ps \in SeqsUpTo(Pieces, MaxPieces) :
        Start(o, <<Flatten(ps)>>, 1, FALSE)

SpecPlaceholder == InitPlaceholder /\ [][ParseNext]_vars

\* C26: with AllowInlineComments=true, when parse has handled a line that holds no
\* occurrence of CommentStart, stripInlineComments returned the line unchanged.
C26_NoMarkerIdentity ==
    (Len(trail) = 1 /\ Index(LineText(1), options.CommentStart) = 0) =>
        stripInlineComments(LineText(1)) = LineText(1)

(***************************************************************************)
(* C27  Order of trimming, quote stripping and the empty-value test        *)
(***************************************************************************)
OrderOptions ==
    {[DefaultIniOptions EXCEPT !.TrimProperties = t, !.StripEnclosingQuotes = s,
                               !.DiscardPropertiesWithNoValue = d] :
        t \in BOOLEAN, s \in BOOLEAN, d \in BOOLEAN}

\* one line k=value, the value made of quotes, spaces and letters
InitOrder ==
    \E o \in OrderOptions, v \in SeqsUpTo({"\"", " ", "v"}, MaxValueLen) :
        Start(o, <<Prop(<<"k">>, v)>>, 1, FALSE)

SpecOrder == InitOrder /\ [][ParseNext]_vars

\* the value of line 1: trimmed when TrimProperties, then without its enclosing
\* quotes when StripEnclosingQuotes
OrderedValue ==
    ExpectedUnquoted(IF options.TrimProperties THEN TrimSpace(RawValueOf(1))
                                               ELSE RawValueOf(1))

\* C27: the value of the line k=value is trimmed (when TrimProperties), then has its
\* enclosing quotes stripped (when StripEnclosingQuotes), and only then is tested
\* for emptiness: when the result is empty and DiscardPropertiesWithNoValue=true
\* nothing is stored, otherwise the result is the value stored (so k="" stores
\* nothing with StripEnclosingQuotes=true and the two quotes with it false).
C27_Order ==
    pc = "done" =>
        /\ ret.ic
        /\ IF OrderedValue = <<>> /\ options.DiscardPropertiesWithNoValue
           THEN sections = <<>> /\ trail = <<"discarded">>
           ELSE /\ trail = <<"property">>
                /\ Value(GLOBAL_SECTION, <<"k">>) = [val |-> OrderedValue, err |-> "nil"]

\* the line k= "" with trimming, quote stripping and discarding all on: the value
\* is empty only after both steps, and nothing was stored
C27_Witness ==
    /\ pc = "done"
    /\ options.TrimProperties /\ options.StripEnclosingQuotes
    /\ options.DiscardPropertiesWithNoValue
    /\ file = <<Prop(<<"k">>, <<" ", "\"", "\"">>)>>
    /\ trail = <<"discarded">>
    /\ ~PropertyExists(GLOBAL_SECTION, <<"k">>)

====
